---------------------------- MODULE Spec2Model ----------------------------
(***************************************************************************)
(* A model of the crypto-bot repository: the model service                 *)
(* (main.py train_or_load_model), the sentiment fetch and the trailing     *)
(* stop (main.py), the polling loop (main.py main), the indicator          *)
(* computation (test.py apply_technical_indicators) and the Telegram       *)
(* price tracker (telegram-bot.py).                                        *)
(*                                                                         *)
(* Numbers: prices are positive integers; a percentage p is held as        *)
(* 1000*p (0.02 is 20), a stop price as 1000*price, a sentiment score as   *)
(* 10*score (-0.7 is -7).  All arithmetic is exact; the rounding of        *)
(* Python floats is not modelled.                                          *)
(*                                                                         *)
(* The components own disjoint variables.  Each is checked in a            *)
(* specification of its own (SpecModel, SpecRisk, SpecLoop, SpecFeatures,  *)
(* SpecBot) whose next-state relation holds that component's actions.      *)
(***************************************************************************)
EXTENDS Integers, Sequences, FiniteSets

VARIABLES
    \* main.py, model service
    training_count,     \* global training_count
    artifact,           \* content of the file model_path, or NoFile
    data,               \* argument of the last train_or_load_model call (closes)
    retrain_interval,   \* argument of the last train_or_load_model call
    result,             \* what the last call returned, or Raised
    log,                \* last message train_or_load_model logged
    \* main.py, sentiment and risk parameters
    response,           \* what the news request of the last fetch met
    sentiment,          \* outcome of the last fetch_latest_sentiment call
    trailing_stop_loss_pct, \* global trailing_stop_loss_pct, times 1000
    take_profit_ratio,  \* global take_profit_ratio, times 1000
    entry_price,        \* entry price of the long position
    ticks,              \* the prices passed to trailing_stop_loss so far
    stops,              \* the stop prices it returned, times 1000
    \* main.py, polling loop
    loop_status,        \* "running", or "crashed" once an exception left main()
    ta_rejects_short,   \* whether the installed ta raises on a frame of < 2 rows
    fetched,            \* per pair, how the exchange answers the fetch of the last cycle
    processed,          \* pairs whose price change the last cycle logged
    slept,              \* seconds of the last time.sleep, 0 before the first
    \* test.py, indicators
    bars,               \* closes of the frame last passed to apply_technical_indicators
    features,           \* what that call produced
    \* telegram-bot.py
    user_preferences,   \* global user_preferences, per chat
    jobs,               \* per chat, the repeating check_prices jobs scheduled
    job_queue_available,    \* context.job_queue is not None
    job_context_resolves,   \* job.context yields the chat id the job was given
    market,             \* per pair, the latest close on the exchange
    observed,           \* per pair, the close a check_prices run has just read
    outbox,             \* notifications sent so far
    baseline,           \* per chat and pair, the price tracking counts from
    last_event          \* the handler that ran last

varsModel == <<training_count, artifact, data, retrain_interval, result, log>>

varsRisk == <<response, sentiment, trailing_stop_loss_pct, take_profit_ratio,
              entry_price, ticks, stops>>

varsLoop == <<loop_status, ta_rejects_short, fetched, processed, slept>>

varsFeatures == <<bars, features>>

varsBot == <<user_preferences, jobs, job_queue_available, job_context_resolves,
             market, observed, outbox, baseline, last_event>>

vars == <<varsModel, varsRisk, varsLoop, varsFeatures, varsBot>>

-----------------------------------------------------------------------------
(* Bounds *)

\* longest frame handed to train_or_load_model
MaxRows == 3
\* calls are cut off once the counter reaches this value
MaxCount == 102
\* a short retraining period a caller may pass
SmallInterval == 2
\* most articles in one news payload
MaxArticles == 2
\* most price ticks of one position
MaxTicks == 3
\* longest frame handed to apply_technical_indicators
MaxBars == 52
\* chats talking to the bot
MaxChats == 1
\* most repeating jobs scheduled for one chat
MaxJobs == 2
\* most pairs whose fetch fails within one check_prices run
MaxFailures == 1

-----------------------------------------------------------------------------
(* Model service: main.py train_or_load_model *)

\* pandas' missing value; closes are positive
NaN == -1

\* default of the parameter retrain_interval
DefaultRetrainInterval == 100

Closes == {1, 2}

Frames == UNION {[1..n -> Closes] : n \in 0..MaxRows}

Intervals == {SmallInterval, DefaultRetrainInterval}

\* no file at model_path
NoFile == [tag |-> "absent", X |-> <<>>, y |-> <<>>]

\* the return value None
None == [tag |-> "None", X |-> <<>>, y |-> <<>>]

\* the ValueError of model.fit escaping the call
Raised == [tag |-> "ValueError", X |-> <<>>, y |-> <<>>]

\* a model left at model_path by an earlier process
PriorModel == [tag |-> "model", X |-> <<1>>, y |-> <<1>>]

\* os.path.exists(model_path)
ModelExists == artifact # NoFile

\* data.empty
IsEmpty(df) == Len(df) = 0

\* data["close"].shift(-1): row i holds the next row's close, the last row NaN
ShiftUp(df) == [i \in 1..Len(df) |-> IF i < Len(df) THEN df[i + 1] ELSE NaN]

\* a > b on floats: False when either side is NaN
Greater(a, b) == a # NaN /\ b # NaN /\ a > b

\* y = np.where(data["close"].shift(-1) > data["close"], 1, 0)
Labels(df) ==
    [i \in 1..Len(df) |-> IF Greater(ShiftUp(df)[i], df[i]) THEN 1 ELSE 0]

\* X = data[["rsi", "bb_upper", "bb_lower", "sma"]].values: one feature row per
\* frame row, named here by its row number
FeatureRows(df) == [i \in 1..Len(df) |-> i]

\* AllButLast with the slice forgotten: fit(X, y)
WholeSeq(s) == s

\* s[:-1]
AllButLast(s) == IF Len(s) = 0 THEN s ELSE SubSeq(s, 1, Len(s) - 1)

\* RandomForestClassifier().fit(X, y): the fitted model is a function of its
\* training set; sklearn refuses an empty training set with a ValueError
FitRaises(X, y) == Len(X) = 0

Fit(X, y) == [tag |-> "model", X |-> X, y |-> y]

LogNothing == ""
LogNoData == "No data available for training the model."
LogTrained == "ML model trained and saved."
LogLoaded == "ML model loaded."

train_or_load_model(df, interval) ==
    LET count == training_count + 1
        X == FeatureRows(df)
        y == Labels(df)
    IN  /\ training_count < MaxCount
        /\ UNCHANGED <<varsRisk, varsLoop, varsFeatures, varsBot>>
        /\ data' = df
        /\ retrain_interval' = interval
        /\ IF ~ModelExists \/ count >= interval
           THEN IF IsEmpty(df)
                THEN /\ training_count' = count
                     /\ log' = LogNoData
                     /\ result' = None
                     /\ UNCHANGED artifact
                ELSE IF FitRaises(AllButLast(X), AllButLast(y))
                THEN /\ training_count' = count
                     /\ result' = Raised
                     /\ UNCHANGED <<artifact, log>>
                ELSE /\ artifact' = Fit(AllButLast(X), AllButLast(y))
                     /\ log' = LogTrained
                     /\ training_count' = 0
                     /\ result' = artifact'
           ELSE /\ training_count' = count
                /\ result' = artifact
                /\ log' = LogLoaded
                /\ UNCHANGED artifact

InitModel ==
    /\ training_count = 0
    /\ artifact \in {NoFile, PriorModel}
    /\ data = <<>>
    /\ retrain_interval = DefaultRetrainInterval
    /\ result = None
    /\ log = LogNothing

CallModel == \E df \in Frames, interval \in Intervals : train_or_load_model(df, interval)

NextModel == CallModel


-----------------------------------------------------------------------------
(* Claims about the model service *)

\* the last call trained a model on data
TrainedOnData == log = LogTrained /\ result.tag = "model"

\* C10: whenever a call trains on a frame of n rows, n >= 2, the training set is
\* exactly the rows 1..n-1 (the rows 0..n-2 of the code), the label of row i is 1
\* if the close of row i+1 is above the close of row i and 0 otherwise, and the
\* last row is no part of it.
C10_TrainingSetIsAllButLastRow ==
    TrainedOnData =>
        LET n == Len(data)
        IN  /\ n >= 2
            /\ artifact = result
            /\ result.X = [i \in 1..(n - 1) |-> i]
            /\ Len(result.y) = n - 1
            /\ \A i \in 1..(n - 1) :
                   result.y[i] = IF data[i + 1] > data[i] THEN 1 ELSE 0

\* a call trained on three rows whose closes are equal, then rising
C10_Witness ==
    /\ TrainedOnData
    /\ data = <<1, 1, 2>>
    /\ result.y = <<0, 1>>

\* C2: with a non-empty frame and a model file present, the call on which the
\* incremented counter reaches retrain_interval trains, overwrites the file and
\* leaves the counter at 0; a call on which it stays below loads the file.
C2_RetrainWhenCounterReachesInterval ==
    [][(ModelExists /\ ~IsEmpty(data'))
        => IF training_count + 1 >= retrain_interval'
           THEN /\ log' = LogTrained
                /\ result'.tag = "model"
                /\ artifact' = result'
                /\ training_count' = 0
           ELSE /\ log' = LogLoaded
                /\ result' = artifact
                /\ artifact' = artifact]_vars

\* C3: on the first call of a process (counter 0, nothing logged yet), with the
\* default interval and a non-empty frame, an absent file means train, persist,
\* return the model and leave the counter at 0; a present file means load it and
\* leave it as it is.
C3_FirstCallDecidedByArtifact ==
    [][(training_count = 0 /\ log = LogNothing /\ result = None
            /\ retrain_interval' = DefaultRetrainInterval /\ ~IsEmpty(data'))
        => IF ~ModelExists
           THEN /\ log' = LogTrained
                /\ result'.tag = "model"
                /\ artifact' = result'
                /\ training_count' = 0
           ELSE /\ log' = LogLoaded
                /\ result' = artifact
                /\ artifact' = artifact]_vars

\* C8: when a train is due (no file, or the counter at retrain_interval) and the
\* frame has fewer than 2 rows, the call raises nothing, leaves the file as it is
\* and keeps a persisted model, if there is one, as the model in use.
C8_TooFewRowsSkipsTraining ==
    [][((~ModelExists \/ training_count + 1 >= retrain_interval') /\ Len(data') < 2)
        => /\ result' # Raised
           /\ artifact' = artifact
           /\ (ModelExists => result' = artifact)]_vars

-----------------------------------------------------------------------------
(* Sentiment: main.py fetch_latest_sentiment *)

\* TextBlob polarities (times 10) the joined titles may score
Polarities == {-7, 0, 8}

StatusCodes == {200, 401, 500}

\* an article with a title, one without the key "title" (the lookup raises
\* KeyError), one whose title is null (the join raises TypeError)
ArticleKinds == {"titled", "untitled", "null_title"}

ArticleLists == UNION {[1..n -> ArticleKinds] : n \in 0..MaxArticles}

\* request: requests.get returns ("ok") or raises; status: the status code;
\* payload: the body is no JSON, a JSON object without "articles", or one with
\* the list articles; polarity: what TextBlob scores the joined titles.  A field
\* the code never gets to read is left at its value in NoResponse
NoResponse ==
    [request |-> "none", status |-> 200, payload |-> "articles",
     articles |-> <<>>, polarity |-> 0]

Responses ==
    {[NoResponse EXCEPT !.request = "raises"]}
    \cup {[NoResponse EXCEPT !.request = "ok", !.status = code] :
              code \in StatusCodes \ {200}}
    \cup {[NoResponse EXCEPT !.request = "ok", !.payload = body] :
              body \in {"not_json", "no_articles"}}
    \cup {[NoResponse EXCEPT !.request = "ok", !.articles = list, !.polarity = score] :
              list \in ArticleLists, score \in Polarities}

Returned(v) == [raised |-> FALSE, value |-> v]

Exception == [raised |-> TRUE, value |-> 0]

\* get_sentiment(all_text): TextBlob scores the empty text 0.0
get_sentiment(titles, polarity) == IF titles = <<>> THEN 0 ELSE polarity

\* the body of the try block, lines 103-119
SentimentTryBody(r) ==
    IF r.request = "raises"
    THEN Exception
    ELSE IF r.status = 200
    THEN IF r.payload = "not_json"
         THEN Exception
         ELSE LET articles == IF r.payload = "no_articles" THEN <<>> ELSE r.articles
              IN  IF \E i \in DOMAIN articles : articles[i] # "titled"
                  THEN Exception
                  ELSE Returned(get_sentiment(articles, r.polarity))
    ELSE Returned(0)

\* ExceptReturnsZero without the handler: the exception leaves the function
ExceptMissing(outcome) == outcome

\* except Exception as e: ... return 0, lines 120-122
ExceptReturnsZero(outcome) == IF outcome.raised THEN Returned(0) ELSE outcome

FetchLatestSentiment(r) == ExceptReturnsZero(SentimentTryBody(r))

fetch_latest_sentiment ==
    /\ \E r \in Responses :
          /\ response' = r
          /\ sentiment' = FetchLatestSentiment(r)
    /\ UNCHANGED <<trailing_stop_loss_pct, take_profit_ratio, entry_price, ticks, stops>>
    /\ UNCHANGED <<varsModel, varsLoop, varsFeatures, varsBot>>

-----------------------------------------------------------------------------
(* Trailing stop: main.py trailing_stop_loss *)

Prices == {100, 102, 105}

Max(a, b) == IF a >= b THEN a ELSE b

\* stop_loss_price = entry_price * (1 - trailing_stop_loss_pct)
\* return max(stop_loss_price, current_price * (1 - trailing_stop_loss_pct))
trailing_stop_loss(entry, current) ==
    LET stop_loss_price == entry * (1000 - trailing_stop_loss_pct)
    IN  Max(stop_loss_price, current * (1000 - trailing_stop_loss_pct))

\* one price tick of the position: the stop is asked for the current price
Tick ==
    /\ Len(ticks) < MaxTicks
    /\ \E current_price \in Prices :
          /\ ticks' = Append(ticks, current_price)
          /\ stops' = Append(stops, trailing_stop_loss(entry_price, current_price))
    /\ UNCHANGED <<response, sentiment, trailing_stop_loss_pct, take_profit_ratio,
                   entry_price>>
    /\ UNCHANGED <<varsModel, varsLoop, varsFeatures, varsBot>>

InitRisk ==
    /\ response = NoResponse
    /\ sentiment = Returned(0)
    /\ trailing_stop_loss_pct = 20
    /\ take_profit_ratio = 50
    /\ entry_price \in {100, 102}
    /\ ticks = <<>>
    /\ stops = <<>>

NextRisk == fetch_latest_sentiment \/ Tick

-----------------------------------------------------------------------------
(* Claims about sentiment and risk parameters *)

\* the sentiment source failed: the request raised, the status is not 200, or the
\* payload is malformed
SourceFailed(r) ==
    \/ r.request = "raises"
    \/ r.status # 200
    \/ r.payload = "not_json"
    \/ r.payload = "articles" /\ \E i \in DOMAIN r.articles : r.articles[i] # "titled"

\* C4: fetch_latest_sentiment never lets an exception out, and whenever the
\* sentiment source failed it returns the neutral score 0.
C4_SentimentFailureIsNeutral ==
    /\ ~sentiment.raised
    /\ (response.request # "none" /\ SourceFailed(response)) => sentiment.value = 0

\* a 200 answer whose second article has no title was turned into 0
C4_Witness ==
    /\ response.request = "ok"
    /\ response.status = 200
    /\ response.payload = "articles"
    /\ response.articles = <<"titled", "untitled">>
    /\ response.polarity = 8
    /\ sentiment = Returned(0)

\* C5: the trailing-stop percentage and the take-profit ratio in effect are those
\* of the bucket of the latest sentiment score: (0.03, 0.03) below -0.5,
\* (0.02, 0.05) from -0.5 to 0.5, (0.015, 0.07) above 0.5.
C5_RiskParametersFollowSentiment ==
    (response.request # "none" /\ ~sentiment.raised) =>
        LET score == sentiment.value
        IN  /\ score < -5 => trailing_stop_loss_pct = 30 /\ take_profit_ratio = 30
            /\ (score >= -5 /\ score <= 5) =>
                   trailing_stop_loss_pct = 20 /\ take_profit_ratio = 50
            /\ score > 5 => trailing_stop_loss_pct = 15 /\ take_profit_ratio = 70

\* C1: the stop of a long position never decreases from one tick to the next,
\* whatever the prices; entry 100, 2 %, prices 100, 105, 102 give the stops
\* 98.00, 102.90, 102.90.
C1_StopNeverDecreases ==
    /\ \A i \in 2..Len(stops) : stops[i] >= stops[i - 1]
    /\ (entry_price = 100 /\ trailing_stop_loss_pct = 20 /\ ticks = <<100, 105, 102>>)
           => stops = <<98000, 102900, 102900>>

-----------------------------------------------------------------------------
(* Polling loop: main.py main, fetch_market_data, compute_technical_indicators *)

top_pairs == {"BTC/USDT", "ETH/USDT", "BNB/USDT", "XRP/USDT", "ADA/USDT"}

\* what exchange.fetch_ohlcv does for one pair: it raises ("error"), returns no
\* bars ("nodata") or returns n bars, n up to the limit of 100
NotFetched == [kind |-> "none", n |-> 0]

FetchOutcomes ==
    {[kind |-> "error", n |-> 0],
     [kind |-> "nodata", n |-> 0],
     [kind |-> "bars", n |-> 1],
     [kind |-> "bars", n |-> 100]}

\* fetch_market_data: the frame it returns.  After an exception it is
\* pd.DataFrame(), a frame with no columns; otherwise it has the six OHLCV
\* columns and one row per bar
fetch_market_data(outcome) == [columns |-> outcome.kind # "error", n |-> outcome.n]

\* compute_technical_indicators raises: on a frame without the columns "open",
\* "high", "low", "close", "volume" the column lookup raises KeyError; on a frame
\* of fewer than 2 rows the installed ta library may raise or not
ComputeRaises(df) == ~df.columns \/ (df.n < 2 /\ ta_rejects_short)

\* one iteration of while True
Cycle ==
    /\ loop_status = "running"
    /\ \E outcome \in [top_pairs -> FetchOutcomes] :
          LET frame == [pair \in top_pairs |-> fetch_market_data(outcome[pair])]
              dataframes == {pair \in top_pairs : frame[pair].n > 0}
          IN  /\ fetched' = outcome
              /\ IF \E pair \in top_pairs : ComputeRaises(frame[pair])
                 THEN /\ loop_status' = "crashed"
                      /\ processed' = {}
                      /\ UNCHANGED slept
                 ELSE IF dataframes = {}
                 THEN /\ slept' = 60
                      /\ processed' = {}
                      /\ UNCHANGED loop_status
                 ELSE /\ processed' = {pair \in dataframes : frame[pair].n >= 2}
                      /\ slept' = 600
                      /\ UNCHANGED loop_status
    /\ UNCHANGED ta_rejects_short
    /\ UNCHANGED <<varsModel, varsRisk, varsFeatures, varsBot>>

InitLoop ==
    /\ loop_status = "running"
    /\ ta_rejects_short \in BOOLEAN
    /\ fetched = [pair \in top_pairs |-> NotFetched]
    /\ processed = {}
    /\ slept = 0

NextLoop == Cycle

\* the fetch of this pair failed or returned no bars in the last cycle
FetchFailed(pair) == fetched[pair].kind \in {"error", "nodata"}

\* C6: when the fetch fails or returns no bars for one pair in a cycle, that pair
\* is skipped, the other pairs are still processed in that cycle, and the loop
\* goes on to the next cycle: the process does not terminate.
C6_FetchFailureSkipsInstrument ==
    (\E pair \in top_pairs : FetchFailed(pair)) =>
        /\ loop_status = "running"
        /\ \A pair \in top_pairs :
              /\ FetchFailed(pair) => pair \notin processed
              /\ (fetched[pair].kind = "bars" /\ fetched[pair].n >= 2)
                     => pair \in processed

-----------------------------------------------------------------------------
(* Indicators: test.py apply_technical_indicators *)

\* RSIIndicator(close=..., window=14)
RSIWindow == 14

\* BollingerBands(close=..., window=20, window_dev=2)
BollingerWindow == 20

\* SMAIndicator(close=..., window=50)
SMAWindow == 50

\* a defined value of an indicator whose number the model does not compute
Number == 1

\* closes of n bars: constant, or cycling through three values
BarSequences ==
    {[i \in 1..n |-> 10 + ((i * k) % 3)] : n \in 1..MaxBars, k \in 0..2}

RECURSIVE SumRange(_, _, _)
SumRange(closes, from, to) ==
    IF from > to THEN 0 ELSE closes[to] + SumRange(closes, from, to - 1)

\* SMAIndicator with min_periods forgotten: before the window is full it takes
\* the bars there are
SMAOverAvailable(closes, window) ==
    [i \in 1..Len(closes) |->
        IF i < window THEN SumRange(closes, 1, i)
                      ELSE SumRange(closes, i - window + 1, i)]

\* SMAIndicator(close, window).sma_indicator(): the rolling mean, undefined until
\* the window is full.  The cell holds window * mean, the sum of the window
SMAIndicator(closes, window) ==
    [i \in 1..Len(closes) |->
        IF i < window THEN NaN ELSE SumRange(closes, i - window + 1, i)]

\* RSIIndicator(close, window).rsi(): undefined until the window is full
RSIIndicator(closes, window) ==
    [i \in 1..Len(closes) |-> IF i < window THEN NaN ELSE Number]

\* BollingerBands(close, window, 2).bollinger_hband() and bollinger_lband():
\* undefined until the window is full
BollingerBands(closes, window) ==
    [i \in 1..Len(closes) |-> IF i < window THEN NaN ELSE Number]

\* the frame returned: the columns added to data, one row per bar; no path raises
apply_technical_indicators(closes) ==
    [raised |-> FALSE,
     rows |-> [i \in 1..Len(closes) |->
                  [close |-> closes[i],
                   rsi |-> RSIIndicator(closes, RSIWindow)[i],
                   bb_upper |-> BollingerBands(closes, BollingerWindow)[i],
                   bb_lower |-> BollingerBands(closes, BollingerWindow)[i],
                   sma |-> SMAIndicator(closes, SMAWindow)[i]]]]

ApplyIndicators ==
    /\ \E closes \in BarSequences :
          /\ bars' = closes
          /\ features' = apply_technical_indicators(closes)
    /\ UNCHANGED <<varsModel, varsRisk, varsLoop, varsBot>>

InitFeatures ==
    /\ bars = <<>>
    /\ features = [raised |-> FALSE, rows |-> <<>>]

NextFeatures == ApplyIndicators

-----------------------------------------------------------------------------
(* Telegram tracker: telegram-bot.py *)

bot_top_pairs == <<"BTC/USDT", "ETH/USDT", "BNB/USDT", "XRP/USDT", "ADA/USDT">>

BotPairs == {bot_top_pairs[i] : i \in DOMAIN bot_top_pairs}

Chats == 1..MaxChats

\* None in the place of a price, and the close of a pair whose fetch failed
NoPrice == 0

MarketPrices == {100, 105}

\* no entry for the chat in user_preferences
NoPreference == [track_from |-> "unset", last_price |-> NoPrice]

\* the pairs whose fetch fails or returns fewer than 2 bars within one run
FetchFailures == {S \in SUBSET BotPairs : Cardinality(S) <= MaxFailures}

NothingObserved == [pair \in BotPairs |-> NoPrice]

\* schedule_price_checks: one more repeating job, unless there is no job queue
schedule_price_checks(chat_id) ==
    jobs' = [jobs EXCEPT ![chat_id] = IF job_queue_available THEN @ + 1 ELSE @]

Track(chat_id, from) ==
    /\ jobs[chat_id] < MaxJobs
    /\ user_preferences' =
           [user_preferences EXCEPT ![chat_id] = [track_from |-> from, last_price |-> NoPrice]]
    /\ schedule_price_checks(chat_id)
    /\ baseline' = [baseline EXCEPT ![chat_id] = market]
    /\ last_event' = from
    /\ observed' = NothingObserved
    /\ UNCHANGED <<job_queue_available, job_context_resolves, market, outbox>>
    /\ UNCHANGED <<varsModel, varsRisk, varsLoop, varsFeatures>>

track_current == \E chat_id \in Chats : Track(chat_id, "current")

track_purchase == \E chat_id \in Chats : Track(chat_id, "purchase")

\* percentage_profit >= 5, with
\* percentage_profit = ((recent_close - previous_close) / previous_close) * 100
ProfitAtLeastFive(recent_close, previous_close) ==
    (recent_close - previous_close) * 100 >= 5 * previous_close

\* the loop of check_prices from the i-th pair on: user_pref is the chat's entry
\* as the loop has left it, sent the pairs notified so far
RECURSIVE CheckPairs(_, _, _, _)
CheckPairs(i, user_pref, sent, close) ==
    IF i > Len(bot_top_pairs)
    THEN [user_pref |-> user_pref, sent |-> sent]
    ELSE LET pair == bot_top_pairs[i]
             recent_close == close[pair]
             previous_close == IF user_pref.last_price # NoPrice
                               THEN user_pref.last_price
                               ELSE recent_close
         IN  IF recent_close = NoPrice \/ user_pref.track_from = "unset"
             THEN CheckPairs(i + 1, user_pref, sent, close)
             ELSE IF ProfitAtLeastFive(recent_close, previous_close)
             THEN CheckPairs(i + 1, [user_pref EXCEPT !.last_price = recent_close],
                             sent \cup {pair}, close)
             ELSE CheckPairs(i + 1, user_pref, sent, close)

\* one run of a chat's repeating job
check_prices ==
    /\ \E chat_id \in Chats :
          /\ jobs[chat_id] > 0
          /\ IF ~job_context_resolves
             THEN /\ observed' = NothingObserved
                  /\ UNCHANGED <<user_preferences, outbox, baseline>>
             ELSE \E failed \in FetchFailures :
                     LET close == [pair \in BotPairs |->
                                      IF pair \in failed THEN NoPrice ELSE market[pair]]
                         run == CheckPairs(1, user_preferences[chat_id], {}, close)
                     IN  /\ observed' = close
                         /\ user_preferences' =
                                [user_preferences EXCEPT ![chat_id] = run.user_pref]
                         /\ outbox' = outbox \cup
                                {[chat |-> chat_id, pair |-> pair, price |-> close[pair]] :
                                    pair \in run.sent}
                         /\ baseline' = [baseline EXCEPT ![chat_id] =
                                [pair \in BotPairs |->
                                    IF pair \in run.sent THEN close[pair] ELSE @[pair]]]
    /\ last_event' = "check_prices"
    /\ UNCHANGED <<jobs, job_queue_available, job_context_resolves, market>>
    /\ UNCHANGED <<varsModel, varsRisk, varsLoop, varsFeatures>>

\* the exchange: the latest close of one pair changes
MarketMove ==
    /\ \E pair \in BotPairs, price \in MarketPrices :
          /\ market[pair] # price
          /\ market' = [market EXCEPT ![pair] = price]
    /\ last_event' = "market"
    /\ observed' = NothingObserved
    /\ UNCHANGED <<user_preferences, jobs, job_queue_available, job_context_resolves,
                   outbox, baseline>>
    /\ UNCHANGED <<varsModel, varsRisk, varsLoop, varsFeatures>>

InitBot ==
    /\ user_preferences = [chat_id \in Chats |-> NoPreference]
    /\ jobs = [chat_id \in Chats |-> 0]
    /\ job_queue_available \in BOOLEAN
    /\ job_context_resolves \in BOOLEAN
    /\ market = [pair \in BotPairs |-> 100]
    /\ observed = NothingObserved
    /\ outbox = {}
    /\ baseline = [chat_id \in Chats |-> NothingObserved]
    /\ last_event = "none"

NextBot == track_current \/ track_purchase \/ check_prices \/ MarketMove

\* C9: once a chat tracks, every price check that reads a close at least 5 % above
\* the chat's baseline for that pair (the price when tracking began, afterwards
\* the price of the last notification) sends that chat a notification for the pair.
C9_RiseOfFivePercentIsNotified ==
    [][last_event' = "check_prices" =>
        \A chat_id \in Chats, pair \in BotPairs :
            (/\ jobs[chat_id] > 0
             /\ user_preferences[chat_id].track_from # "unset"
             /\ baseline[chat_id][pair] # NoPrice
             /\ observed'[pair] # NoPrice
             /\ observed'[pair] * 100 >= 105 * baseline[chat_id][pair])
            => [chat |-> chat_id, pair |-> pair, price |-> observed'[pair]] \in outbox']_vars

-----------------------------------------------------------------------------

\* a component no action of the specification touches rests in one state
IdleModel == InitModel /\ artifact = NoFile

IdleRisk == InitRisk /\ entry_price = 100

IdleLoop == InitLoop /\ ~ta_rejects_short

IdleFeatures == InitFeatures

IdleBot == InitBot /\ job_queue_available /\ job_context_resolves

StartModel == InitModel /\ IdleRisk /\ IdleLoop /\ IdleFeatures /\ IdleBot

StartRisk == IdleModel /\ InitRisk /\ IdleLoop /\ IdleFeatures /\ IdleBot

StartLoop == IdleModel /\ IdleRisk /\ InitLoop /\ IdleFeatures /\ IdleBot

StartFeatures == IdleModel /\ IdleRisk /\ IdleLoop /\ InitFeatures /\ IdleBot

StartBot == IdleModel /\ IdleRisk /\ IdleLoop /\ IdleFeatures /\ InitBot

SpecModel == StartModel /\ [][NextModel]_vars

SpecRisk == StartRisk /\ [][NextRisk]_vars

SpecLoop == StartLoop /\ [][NextLoop]_vars

SpecFeatures == StartFeatures /\ [][NextFeatures]_vars

SpecBot == StartBot /\ [][NextBot]_vars

Init == InitModel /\ InitRisk /\ InitLoop /\ InitFeatures /\ InitBot

Next == NextModel \/ NextRisk \/ NextLoop \/ NextFeatures \/ NextBot

Spec == Init /\ [][Next]_vars

=============================================================================
